---- MODULE Spec2Model ----
(***************************************************************************)
(* MedAI-Connect (src/App.jsx): the rule-based triage engine and the       *)
(* session store of the App component.                                     *)
(*                                                                         *)
(* JavaScript values are modelled as follows.                              *)
(*   - strings are TLA+ strings; characters are strings of length one;     *)
(*   - an optional number (null or a number) is <<>> or <<n>>;             *)
(*   - body temperature is kept in tenths of a degree (38.0 is 380);       *)
(*   - the confidence, a double in the code, is kept in hundredths: every  *)
(*     value the code computes (0.6, 0.75, 0.8, 0.9) times 100 prints      *)
(*     under toFixed(0) as the integer used here;                          *)
(*   - a value that may or may not be an array (the result of JSON.parse)  *)
(*     is a record [type, items];                                          *)
(*   - the item of localStorage under "medai_sessions" is [kind |-> "null"]*)
(*     when absent, else a string described by its content.                *)
(***************************************************************************)
EXTENDS Integers, Sequences, FiniteSets, TLC

VARIABLES
    inputText,      \* useState("") of line 25
    transcript,     \* useState("") of line 26
    deviceData,     \* useState({spo2, temp, hr}) of line 37
    currentResult,  \* useState(null) of line 36: <<>> or <<result>>
    sessions,       \* useState(...) of line 28
    persisted,      \* localStorage item "medai_sessions"
    now,            \* the last reading of the clock (Date.now())
    crashed,        \* the component threw while rendering
    lastOp,         \* history: the operation that produced this state
    lastId,         \* history: the id given to the last deleteSession
    prev,           \* history: sessions before the last operation
    added,          \* history: the sessions added since the store was empty
    count           \* history: how many adds, deletes, same-clock adds so far

vars == <<inputText, transcript, deviceData, currentResult, sessions, persisted,
          now, crashed, lastOp, lastId, prev, added, count>>

-----------------------------------------------------------------------------
(* Bounds of the model.                                                    *)

MaxAdds == 3
MaxDeletes == 2
MaxFill == 52
MaxSameMs == 1
MaxTriageRuns == 1

(* Program constants.                                                      *)

MaxSessions == 50

-----------------------------------------------------------------------------
(* Strings.                                                                *)

Min(a, b) == IF a < b THEN a ELSE b
Max(a, b) == IF a > b THEN a ELSE b

CharAt(s, i) == SubSeq(s, i, i)

\* s.includes(pat): what RegExp.test does for a pattern without operators
Contains(s, pat) ==
    \E i \in 1..(Len(s) - Len(pat) + 1) : SubSeq(s, i, i + Len(pat) - 1) = pat

\* /p1|p2|.../.test(s)
TestAny(pats, s) == \E p \in pats : Contains(s, p)

UpperToLower ==
    ("A" :> "a") @@ ("B" :> "b") @@ ("C" :> "c") @@ ("D" :> "d") @@ ("E" :> "e") @@
    ("F" :> "f") @@ ("G" :> "g") @@ ("H" :> "h") @@ ("I" :> "i") @@ ("J" :> "j") @@
    ("K" :> "k") @@ ("L" :> "l") @@ ("M" :> "m") @@ ("N" :> "n") @@ ("O" :> "o") @@
    ("P" :> "p") @@ ("Q" :> "q") @@ ("R" :> "r") @@ ("S" :> "s") @@ ("T" :> "t") @@
    ("U" :> "u") @@ ("V" :> "v") @@ ("W" :> "w") @@ ("X" :> "x") @@ ("Y" :> "y") @@
    ("Z" :> "z")

RECURSIVE toLowerCase(_)
toLowerCase(s) ==
    IF Len(s) = 0 THEN ""
    ELSE LET c == CharAt(s, 1)
         IN  (IF c \in DOMAIN UpperToLower THEN UpperToLower[c] ELSE c)
                 \o toLowerCase(SubSeq(s, 2, Len(s)))

\* /i flag: the pattern and the subject are compared without case
TestAnyI(pats, s) == \E p \in pats : Contains(toLowerCase(s), toLowerCase(p))

AlphaNum ==
    {"a", "b", "c", "d", "e", "f", "g", "h", "i", "j", "k", "l", "m", "n", "o", "p",
     "q", "r", "s", "t", "u", "v", "w", "x", "y", "z",
     "0", "1", "2", "3", "4", "5", "6", "7", "8", "9"} \cup DOMAIN UpperToLower

\* t.split(/[^a-zA-Z0-9]+/).filter(Boolean).length: the maximal alphanumeric runs
WordCount(t) ==
    Cardinality({i \in 1..Len(t) :
        /\ CharAt(t, i) \in AlphaNum
        /\ (i = 1 \/ CharAt(t, i - 1) \notin AlphaNum)})

RECURSIVE Join(_, _)
\* parts.join(sep)
Join(parts, sep) ==
    IF Len(parts) = 0 THEN ""
    ELSE IF Len(parts) = 1 THEN parts[1]
    ELSE parts[1] \o sep \o Join(Tail(parts), sep)

-----------------------------------------------------------------------------
(* Optional numbers and JavaScript truthiness.                             *)

NULL == <<>>
Num(n) == <<n>>

\* the value of `x && ...` as a condition: null and 0 are falsy
Truthy(x) == x # NULL /\ x[1] # 0

\* text || "" and inputText || transcript: the empty string is falsy
OrElse(a, b) == IF a # "" THEN a ELSE b

-----------------------------------------------------------------------------
(* triageEngine, lines 80-149.                                             *)

SymptomFlags(t) ==
    [fever |-> TestAny({"fever", "temperature", "hot", "chills"}, t),
     cough |-> TestAny({"cough", "coughing"}, t),
     breath |-> TestAny({"breath", "breathing", "shortness", "dyspnea", "breathless"}, t),
     chest |-> TestAny({"chest", "pressure", "pain in chest"}, t),
     vomit |-> TestAny({"vomit", "nausea", "throw up"}, t),
     dizzy |-> TestAny({"dizzy", "faint", "lightheaded"}, t),
     bleed |-> TestAny({"bleed", "blood"}, t),
     rash |-> TestAny({"rash", "itch", "red spot", "spots"}, t)]

WarnLowOxygen == "Low oxygen saturation (SpO2)"
WarnFever == "Fever: elevated body temperature"
WarnHeartRate == "Abnormal heart rate"

Spo2Warning(dev) ==
    IF Truthy(dev.spo2) /\ dev.spo2[1] < 92 THEN <<WarnLowOxygen>> ELSE <<>>

TempWarning(dev) ==
    IF Truthy(dev.temp) /\ dev.temp[1] >= 380 THEN <<WarnFever>> ELSE <<>>

HrWarning(dev) ==
    IF Truthy(dev.hr) /\ (dev.hr[1] < 50 \/ dev.hr[1] > 120)
    THEN <<WarnHeartRate>> ELSE <<>>

DeviceWarnings(dev) == Spo2Warning(dev) \o TempWarning(dev) \o HrWarning(dev)

SomeWarning(devWarnings, pats) ==
    \E i \in 1..Len(devWarnings) : TestAnyI(pats, devWarnings[i])

ReasonSerious == "Symptoms related to breathing or chest pain can be serious."
ReasonFeverCough == "Fever with cough may need medical review within 24-48 hours."
ReasonFeverAlone == "Fever alone often needs home care and monitoring."
ReasonFeverRash == "Fever with rash can be a sign of infection; consult if it worsens."
ReasonVomitDizzy ==
    "Persistent vomiting or dizziness can cause dehydration and needs attention."
ReasonMild == "Symptoms seem mild from the description."

\* the chain with the rash rule tested before the fever rule
BasicTriage_RashBeforeFever(flags, devWarnings) ==
    IF flags.chest \/ flags.breath
          \/ SomeWarning(devWarnings, {"oxygen", "heart", "breath"})
    THEN [urgency |-> "high", reasonParts |-> <<ReasonSerious>>]
    ELSE IF flags.fever /\ flags.cough
    THEN [urgency |-> "moderate", reasonParts |-> <<ReasonFeverCough>>]
    ELSE IF flags.rash /\ flags.fever
    THEN [urgency |-> "moderate", reasonParts |-> <<ReasonFeverRash>>]
    ELSE IF flags.fever
    THEN [urgency |-> "low", reasonParts |-> <<ReasonFeverAlone>>]
    ELSE IF flags.vomit \/ flags.dizzy
    THEN [urgency |-> "moderate", reasonParts |-> <<ReasonVomitDizzy>>]
    ELSE [urgency |-> "low", reasonParts |-> <<ReasonMild>>]

\* the if / else-if chain of lines 102-121
BasicTriage(flags, devWarnings) ==
    IF flags.chest \/ flags.breath
          \/ SomeWarning(devWarnings, {"oxygen", "heart", "breath"})
    THEN [urgency |-> "high", reasonParts |-> <<ReasonSerious>>]
    ELSE IF flags.fever /\ flags.cough
    THEN [urgency |-> "moderate", reasonParts |-> <<ReasonFeverCough>>]
    ELSE IF flags.fever
    THEN [urgency |-> "low", reasonParts |-> <<ReasonFeverAlone>>]
    ELSE IF flags.rash /\ flags.fever
    THEN [urgency |-> "moderate", reasonParts |-> <<ReasonFeverRash>>]
    ELSE IF flags.vomit \/ flags.dizzy
    THEN [urgency |-> "moderate", reasonParts |-> <<ReasonVomitDizzy>>]
    ELSE [urgency |-> "low", reasonParts |-> <<ReasonMild>>]

\* lines 123-126
WithDeviceWarnings(basic, devWarnings) ==
    IF Len(devWarnings) > 0
    THEN [urgency |->
              IF SomeWarning(devWarnings, {"Low oxygen", "Abnormal heart rate"})
              THEN "high" ELSE basic.urgency,
          reasonParts |->
              basic.reasonParts
                  \o [i \in 1..Len(devWarnings) |->
                         "Device reading: " \o devWarnings[i] \o "."]]
    ELSE basic

\* the confidence with `keywordCount >= 6` for `keywordCount > 6`
Confidence_AtLeastSix(keywordCount, devWarnings, urgency) ==
    LET c0 == 60
        c1 == IF keywordCount >= 6 THEN c0 + 15 ELSE c0
        c2 == IF Len(devWarnings) > 0 THEN c1 + 15 ELSE c1
        c3 == IF urgency = "high" THEN Max(c2, 80) ELSE c2
    IN  Min(95, c3)

\* lines 128-133, in hundredths
Confidence(keywordCount, devWarnings, urgency) ==
    LET c0 == 60
        c1 == IF keywordCount > 6 THEN c0 + 15 ELSE c0
        c2 == IF Len(devWarnings) > 0 THEN c1 + 15 ELSE c1
        c3 == IF urgency = "high" THEN Max(c2, 80) ELSE c2
    IN  Min(95, c3)

\* lines 135-140
PossibleConditions(flags) ==
    LET possible ==
            (IF flags.fever /\ flags.cough
             THEN <<"Flu or respiratory infection">> ELSE <<>>)
         \o (IF flags.cough /\ flags.breath
             THEN <<"Lower respiratory tract issue (e.g., pneumonia)">> ELSE <<>>)
         \o (IF flags.rash
             THEN <<"Allergic reaction or skin infection">> ELSE <<>>)
         \o (IF flags.vomit
             THEN <<"Gastroenteritis or food-related illness">> ELSE <<>>)
    IN  IF Len(possible) = 0 THEN <<"Common cold or minor viral illness">>
        ELSE possible

\* (confidence * 100).toFixed(0) + "%"
FormatPercent(hundredths) == ToString(hundredths) \o "%"

triageEngine(text, device, clock) ==
    LET t == toLowerCase(OrElse(text, ""))
        flags == SymptomFlags(t)
        devWarnings == DeviceWarnings(device)
        triaged == WithDeviceWarnings(BasicTriage(flags, devWarnings), devWarnings)
    IN  [urgency |-> triaged.urgency,
         explanation |-> Join(triaged.reasonParts, " "),
         confidence |->
             FormatPercent(Confidence(WordCount(t), devWarnings, triaged.urgency)),
         possible |-> PossibleConditions(flags),
         timestamp |-> clock]

-----------------------------------------------------------------------------
(* JSON values, JSON.parse / JSON.stringify and localStorage.               *)

Array(items) == [type |-> "array", items |-> items]
JsNull == [type |-> "null", items |-> <<>>]
JsObject == [type |-> "object", items |-> <<>>]

\* localStorage.getItem(key) when the key is absent
NoItem == [kind |-> "null", value |-> JsNull, indent |-> 0]
\* the empty string, and a string that is not JSON
EmptyString == [kind |-> "empty", value |-> JsNull, indent |-> 0]
Garbage == [kind |-> "garbage", value |-> JsNull, indent |-> 0]

\* JSON.stringify(value, null, indent): the text of a value at an indentation
JSON_stringify(value, indent) == [kind |-> "json", value |-> value, indent |-> indent]

\* JSON.parse(raw): throws on text that is not JSON, else the value the text denotes
JSON_parse(raw) ==
    IF raw.kind = "json" THEN [threw |-> FALSE, value |-> raw.value]
    ELSE [threw |-> TRUE, value |-> JsNull]

\* localStorage.setItem(key, text) and localStorage.removeItem(key)
setItem(store, text) == text
removeItem(store) == NoItem

\* the initializer of useState, lines 28-35
LoadSessions(raw) ==
    IF raw.kind \in {"null", "empty"} THEN Array(<<>>)
    ELSE LET parsed == JSON_parse(raw)
         IN  IF parsed.threw THEN Array(<<>>) ELSE parsed.value

\* the effect left out: nothing is written after a render
PersistEffect_Skipped(store, s) == store

\* the effect of lines 39-41, run after a render that committed
PersistEffect(store, s) == setItem(store, JSON_stringify(s, 0))

\* rendering the session list, lines 257-259: sessions.length and sessions.map
RenderThrows(s) == s.type # "array"

\* what is in localStorage once the render after a state change has settled
AfterRender(store, s) == IF RenderThrows(s) THEN store ELSE PersistEffect(store, s)

-----------------------------------------------------------------------------
(* Sessions.                                                               *)

NoDevice == [spo2 |-> NULL, temp |-> NULL, hr |-> NULL]

\* `s_${Date.now()}`
SessionId(clock) == "s_" \o ToString(clock)

\* the session object of lines 154-158; new Date() of line 147 and Date.now() of
\* line 155 are taken as one reading of the clock
NewSession(payload, clock) ==
    [id |-> SessionId(clock),
     input |-> payload,
     result |-> triageEngine(payload.text, payload.device, clock)]

\* seq.slice(0, n)
Slice(seq, n) == SubSeq(seq, 1, Min(n, Len(seq)))

\* prev => [...prev, session].slice(0, 50): the new session goes last
Prepend_Append(session, items) == Slice(items \o <<session>>, MaxSessions)

\* prev => [session, ...prev].slice(0, 50)
Prepend(session, items) == Slice(<<session>> \o items, MaxSessions)

\* prev => prev.filter(s => s.id === id)
FilterOut_KeepMatching(items, id) == SelectSeq(items, LAMBDA s : s.id = id)

\* prev => prev.filter(s => s.id !== id)
FilterOut(items, id) == SelectSeq(items, LAMBDA s : s.id # id)

Ids(items) == {items[i].id : i \in 1..Len(items)}

\* what an earlier run of the program left in the store: k sessions, newest first,
\* made at the clock readings k, k-1, ..., 1
StoredSessions(k) ==
    [i \in 1..k |-> NewSession([text |-> "fever", device |-> NoDevice], k - i + 1)]

StoredLengths == {0, 1, 2, MaxSessions - 1, MaxSessions, MaxSessions + 1}

\* the values the item may hold when the component is constructed
StoredItems ==
    {NoItem, EmptyString, Garbage,
     JSON_stringify(JsNull, 0), JSON_stringify(JsObject, 0),
     JSON_stringify(Array(StoredSessions(2)), 2)}
        \cup {JSON_stringify(Array(StoredSessions(k)), 0) : k \in StoredLengths}

\* the clock at construction is later than every stored session
StartClock == MaxSessions + 2

-----------------------------------------------------------------------------
(* History variables.                                                      *)

\* the sessions added since the store was last empty, newest first, and whether
\* nothing but adds happened since
AddedAfter(op, session, after) ==
    IF after.type = "array" /\ after.items = <<>>
    THEN [valid |-> TRUE, log |-> <<>>]
    ELSE IF op = "add"
    THEN [valid |-> added.valid, log |-> <<session[1]>> \o added.log]
    ELSE [valid |-> FALSE, log |-> <<>>]

-----------------------------------------------------------------------------
(* Construction: the useState initializers, the first render and the       *)
(* effects of the first commit.                                            *)

Mounted(raw, clock, op) ==
    LET loaded == LoadSessions(raw)
    IN  /\ inputText = ""
        /\ transcript = ""
        /\ deviceData = NoDevice
        /\ currentResult = <<>>
        /\ sessions = loaded
        /\ crashed = RenderThrows(loaded)
        /\ persisted = AfterRender(raw, loaded)
        /\ now = clock
        /\ lastOp = op
        /\ lastId = ""
        /\ prev = loaded
        /\ added = [valid |-> loaded = Array(<<>>), log |-> <<>>]
        /\ count = [adds |-> 0, deletes |-> 0, sameMs |-> 0]

Init == \E raw \in StoredItems : Mounted(raw, StartClock, "load")

-----------------------------------------------------------------------------
(* The handlers.  Each is the handler, the render it causes and the effect *)
(* of lines 39-41 that the commit of that render runs: React runs the      *)
(* effects of a commit before it dispatches the next event, so no handler  *)
(* sees the state between a commit and its effects.  A render that throws  *)
(* unmounts the component: its effects do not run and no handler is left.  *)

\* lines 150-160, with `clock` the reading of Date.now()
handleTriage(clock) ==
    /\ ~crashed
    /\ clock >= now
    /\ LET payload == [text |-> OrElse(inputText, transcript), device |-> deviceData]
           session == NewSession(payload, clock)
           next == Array(Prepend(session, sessions.items))
       IN  /\ currentResult' = <<session.result>>
           /\ sessions' = next
           /\ persisted' = AfterRender(persisted, next)
           /\ crashed' = RenderThrows(next)
           /\ added' = AddedAfter("add", <<session>>, next)
    /\ now' = clock
    /\ lastOp' = "add"
    /\ prev' = sessions
    /\ count' = [count EXCEPT !.adds = @ + 1,
                              !.sameMs = IF clock = now THEN @ + 1 ELSE @]
    /\ UNCHANGED <<inputText, transcript, deviceData, lastId>>

\* lines 181-183
deleteSession(id) ==
    /\ ~crashed
    /\ LET next == Array(FilterOut(sessions.items, id))
       IN  /\ sessions' = next
           /\ persisted' = AfterRender(persisted, next)
           /\ crashed' = RenderThrows(next)
           /\ added' = AddedAfter("delete", <<>>, next)
    /\ lastOp' = "delete"
    /\ lastId' = id
    /\ prev' = sessions
    /\ count' = [count EXCEPT !.deletes = @ + 1]
    /\ UNCHANGED <<inputText, transcript, deviceData, currentResult, now>>

\* the onClick of line 254: setSessions([]); localStorage.removeItem(...)
clearSessions ==
    /\ ~crashed
    /\ LET next == Array(<<>>)
       IN  /\ sessions' = next
           /\ persisted' = AfterRender(removeItem(persisted), next)
           /\ crashed' = RenderThrows(next)
           /\ added' = AddedAfter("clear", <<>>, next)
    /\ lastOp' = "clear"
    /\ prev' = sessions
    /\ UNCHANGED <<inputText, transcript, deviceData, currentResult, now, lastId, count>>

\* lines 169-171
clearDevice ==
    /\ ~crashed
    /\ deviceData # NoDevice
    /\ deviceData' = NoDevice
    /\ lastOp' = "clearDevice"
    /\ prev' = sessions
    /\ UNCHANGED <<inputText, transcript, currentResult, sessions, persisted, now,
                   crashed, lastId, added, count>>

\* the page is loaded again: the component is constructed from what is stored
Reload ==
    /\ inputText' = ""
    /\ transcript' = ""
    /\ deviceData' = NoDevice
    /\ currentResult' = <<>>
    /\ LET loaded == LoadSessions(persisted)
       IN  /\ sessions' = loaded
           /\ crashed' = RenderThrows(loaded)
           /\ persisted' = AfterRender(persisted, loaded)
           /\ prev' = loaded
           /\ added' = [valid |-> loaded = Array(<<>>), log |-> <<>>]
    /\ lastOp' = "reload"
    /\ lastId' = ""
    /\ UNCHANGED <<now, count>>

-----------------------------------------------------------------------------
(* The session store: what the buttons of the page do.                     *)

\* the Delete buttons offered, cut down to the first, second and last session,
\* and an id no session has
DeleteTargets ==
    {sessions.items[i].id : i \in {1, 2, Len(sessions.items)} \cap DOMAIN sessions.items}
        \cup {SessionId(0)}

\* "Run Triage", line 212
RunTriage ==
    \E clock \in {now, now + 1} : count.adds < MaxAdds /\ handleTriage(clock)

\* "Delete", line 263
DeleteClick ==
    \E id \in DeleteTargets : count.deletes < MaxDeletes /\ deleteSession(id)

Next == RunTriage \/ DeleteClick \/ clearSessions \/ Reload

Spec == Init /\ [][Next]_vars

-----------------------------------------------------------------------------
(* Filling the store: adds alone, from an empty store, past the cap.       *)

InitFill == \E raw \in {NoItem, Garbage} : Mounted(raw, StartClock, "load")

FillTriage ==
    \E clock \in {now, now + 1} :
        /\ count.adds < MaxFill
        /\ clock = now => count.sameMs < MaxSameMs
        /\ handleTriage(clock)

NextFill == FillTriage

SpecFill == InitFill /\ [][NextFill]_vars

-----------------------------------------------------------------------------
(* The triage engine over a set of inputs.                                 *)

Keywords == <<"fever", "cough", "breath", "chest", "vomit", "dizzy", "blood", "rash">>

\* a text naming exactly the symptoms of S, one keyword per flag
KeywordText(S) == Join(SelectSeq(Keywords, LAMBDA w : w \in S), " ")

Texts ==
    {KeywordText(S) : S \in SUBSET {Keywords[i] : i \in DOMAIN Keywords}}
        \cup {"fever and cough for two days",
              "Chest PAIN since this morning",
              "I took a photo",
              "one two three four five six",
              "one two three four five six seven",
              "Fever, cough; and a rash -- for 3 days now"}

Devices ==
    [spo2 : {NULL, Num(85)}, temp : {NULL, Num(380)}, hr : {NULL, Num(121)}]
        \cup [spo2 : {Num(0), Num(91), Num(92)}, temp : {NULL}, hr : {NULL}]
        \cup [spo2 : {NULL}, temp : {Num(379)}, hr : {NULL}]
        \cup [spo2 : {NULL}, temp : {NULL}, hr : {Num(49), Num(50), Num(120)}]

\* the text typed and the last transcript: the transcript is what is triaged
\* when nothing is typed
TypedAndSpoken ==
    {<<t, "">> : t \in Texts}
        \cup {<<"", "shortness of breath">>, <<"rash", "shortness of breath">>}

InitTriage ==
    /\ \E pair \in TypedAndSpoken : inputText = pair[1] /\ transcript = pair[2]
    /\ deviceData \in Devices
    /\ currentResult = <<>>
    /\ sessions = LoadSessions(NoItem)
    /\ crashed = FALSE
    /\ persisted = AfterRender(NoItem, LoadSessions(NoItem))
    /\ now = StartClock
    /\ lastOp = "load"
    /\ lastId = ""
    /\ prev = LoadSessions(NoItem)
    /\ added = [valid |-> TRUE, log |-> <<>>]
    /\ count = [adds |-> 0, deletes |-> 0, sameMs |-> 0]

Evaluate == count.adds < MaxTriageRuns /\ handleTriage(now + 1)

NextTriage == Evaluate \/ clearDevice

SpecTriage == InitTriage /\ [][NextTriage]_vars

-----------------------------------------------------------------------------
(* Properties of the session store.                                        *)

IsArray(s) == s.type = "array"

\* C1: in every reachable state, whatever was persisted at startup, the session
\* sequence in memory has at most 50 entries.
C1_AtMostFifty == IsArray(sessions) => Len(sessions.items) <= MaxSessions

\* C2: in every reachable state the ids of the sessions in the store are pairwise
\* distinct, also when two adds read the same clock value.
C2_IdsDistinct ==
    IsArray(sessions) =>
        \A i, j \in DOMAIN sessions.items :
            i # j => sessions.items[i].id # sessions.items[j].id

\* C3: once a clear has settled, the sequence in memory is empty, the persisted
\* item is absent (not rewritten as an empty list), and a load yields an empty store.
C3_ClearRemovesItem ==
    lastOp = "clear" =>
        /\ sessions = Array(<<>>)
        /\ persisted = NoItem
        /\ LoadSessions(persisted) = Array(<<>>)

\* C5: for every persisted value the store is constructed as a sequence of sessions
\* and nothing ever throws.
C5_LoadNeverFails == ~crashed /\ IsArray(sessions)

\* C6: whenever a user action can be processed, and so after every add and every
\* delete, the persisted item is the serialization of the sequence in memory.
C6_WriteThrough == ~crashed => persisted = JSON_stringify(sessions, 0)

C6_Witness ==
    /\ lastOp = "add"
    /\ ~crashed
    /\ Len(sessions.items) = MaxSessions
    /\ Len(prev.items) = MaxSessions
    /\ persisted.kind = "json"
    /\ persisted.value.items[1].id = SessionId(StartClock + 1)

\* C7: from an empty store, after n adds and nothing else, the store holds the
\* min(n, 50) sessions added last, newest first; after the 51st add it holds 50
\* and the session added first is gone.
C7_NewestFiftyKept ==
    added.valid =>
        LET n == Len(added.log)
            kept == sessions.items
        IN  /\ Len(kept) = Min(n, MaxSessions)
            /\ \A i \in 1..Len(kept) : kept[i] = added.log[i]
            /\ n > MaxSessions => kept[Len(kept)] = added.log[MaxSessions]

C7_Witness ==
    /\ added.valid
    /\ Len(added.log) = MaxSessions + 1
    /\ Len(sessions.items) = MaxSessions
    /\ added.log[MaxSessions + 1].id \notin Ids(sessions.items)

\* C8: delete(id) removes the sessions with that id and leaves every other session
\* and their order as they were; when no session has the id the store is left as
\* it was; a second delete of the same id changes nothing.
C8_DeleteFrame ==
    lastOp = "delete" =>
        LET old == prev.items
            new == sessions.items
            Kept == {i \in DOMAIN old : old[i].id # lastId}
        IN  /\ Len(new) = Cardinality(Kept)
            /\ \A i \in Kept : new[Cardinality({j \in Kept : j <= i})] = old[i]
            /\ Kept = DOMAIN old =>
                   sessions = prev /\ persisted = JSON_stringify(prev, 0)
            /\ FilterOut(new, lastId) = new

C8_Witness ==
    /\ lastOp = "delete"
    /\ Len(sessions.items) = MaxSessions - 1
    /\ Len(prev.items) = MaxSessions
    /\ sessions.items[1] = prev.items[1]
    /\ sessions.items[2] = prev.items[3]

-----------------------------------------------------------------------------
(* Properties of the triage engine, read off the last triage.              *)

Triaged == lastOp = "add"
LastInput == sessions.items[1].input
LastResult == currentResult[1]

Range(seq) == {seq[i] : i \in DOMAIN seq}

\* C4: for every text, an oxygen saturation that is present and below 92 (0
\* included) gives urgency high and the low-oxygen line in the explanation.
C4_LowOxygenIsHigh ==
    (Triaged /\ LastInput.device.spo2 # NULL /\ LastInput.device.spo2[1] < 92) =>
        /\ LastResult.urgency = "high"
        /\ Contains(LastResult.explanation,
                    "Device reading: Low oxygen saturation (SpO2).")

UrgencyRank == [low |-> 0, moderate |-> 1, high |-> 2]

\* the priority order (a)-(f) as a table: condition, urgency, reason
PriorityRules(f, lowOxygen, heartRate) ==
    << <<f.chest \/ f.breath \/ lowOxygen \/ heartRate, "high", ReasonSerious>>,
       <<f.fever /\ f.cough, "moderate", ReasonFeverCough>>,
       <<f.fever, "low", ReasonFeverAlone>>,
       <<f.rash /\ f.fever, "moderate", ReasonFeverRash>>,
       <<f.vomit \/ f.dizzy, "moderate", ReasonVomitDizzy>>,
       <<TRUE, "low", ReasonMild>> >>

\* C9: the urgency is that of the first rule of (a)-(f) that matches, raised to
\* high by a low-oxygen or heart-rate warning; the override never lowers it; rule
\* (d) is never the one taken and its reason is in no explanation.
C9_UrgencyPriority ==
    Triaged =>
        LET f == SymptomFlags(toLowerCase(LastInput.text))
            w == Range(DeviceWarnings(LastInput.device))
            lowOxygen == WarnLowOxygen \in w
            heartRate == WarnHeartRate \in w
            rules == PriorityRules(f, lowOxygen, heartRate)
            first == CHOOSE i \in DOMAIN rules :
                         rules[i][1] /\ \A j \in 1..(i - 1) : ~rules[j][1]
            expected == IF lowOxygen \/ heartRate THEN "high" ELSE rules[first][2]
        IN  /\ LastResult.urgency = expected
            /\ UrgencyRank[LastResult.urgency] >= UrgencyRank[rules[first][2]]
            /\ SubSeq(LastResult.explanation, 1, Len(rules[first][3])) = rules[first][3]
            /\ first # 4
            /\ ~Contains(LastResult.explanation, "Fever with rash")

C9_Witness ==
    /\ Triaged
    /\ SymptomFlags(toLowerCase(LastInput.text)).rash
    /\ SymptomFlags(toLowerCase(LastInput.text)).fever
    /\ ~SymptomFlags(toLowerCase(LastInput.text)).cough
    /\ LastResult.urgency = "low"
    /\ LastResult.explanation = ReasonFeverAlone

\* C10: the confidence is a whole percentage in 0..95: 60, plus 15 for more than
\* six words, plus 15 for any device warning, at least 80 when the urgency is high,
\* at most 95; for the empty text without readings it is 60.
C10_Confidence ==
    Triaged =>
        LET n == WordCount(toLowerCase(LastInput.text))
            w == DeviceWarnings(LastInput.device)
            sum == 60 + (IF n > 6 THEN 15 ELSE 0) + (IF w # <<>> THEN 15 ELSE 0)
            raised == IF LastResult.urgency = "high" /\ sum < 80 THEN 80 ELSE sum
            pct == IF raised > 95 THEN 95 ELSE raised
        IN  /\ pct \in 0..95
            /\ LastResult.confidence = ToString(pct) \o "%"
            /\ (LastInput.text = "" /\ LastInput.device = NoDevice) =>
                   LastResult.confidence = "60%"

C10_Witness ==
    /\ Triaged
    /\ WordCount(LastInput.text) = 7
    /\ LastInput.device.temp = Num(380)
    /\ LastResult.urgency = "low"
    /\ LastResult.confidence = "90%"

====
